---------------------------- MODULE Spec2Model ----------------------------
(***************************************************************************)
(* Tour planner (Dash application, src/app.py): the job-submission state   *)
(* machine of cqm_submit, the job_submit callback, the wd_job one-shot      *)
(* timer, the remote problem service they talk to, and the callback chain  *)
(* user_inputs -> legs -> cqm that generates the CQM.                       *)
(*                                                                         *)
(* Component properties of the page are the variables.  A callback is one  *)
(* action: it reads its Input/State values, computes its return value and  *)
(* the page applies every output that is not dash.no_update.  A callback   *)
(* that raises updates nothing.  job_submit is split at its blocking       *)
(* remote calls, so that timer polls interleave with it.                    *)
(*                                                                         *)
(* Values: a time string produced by strftime("%c") is the number of the   *)
(* second it names (0 is the empty string of the layout); a job id is the  *)
(* index of the problem in the remote service (0 is the empty string).     *)
(* job_elapsed_time, the bar colour and wd_job.interval values are display *)
(* outputs no callback reads; the first is left out.                       *)
(***************************************************************************)
EXTENDS Naturals, Sequences, FiniteSets, TLC

\* ---- bounds of the model
MaxClicks == 2
MaxFailures == 2
MaxEdits == 2

\* ---- program constants
max_intervals == 1
NoJobId == 0
NoTime == 0
IntervalClick == 200
IntervalPoll == 1000
IntervalDone == 100

TERMINATED == {"COMPLETED", "CANCELLED", "FAILED"}
RUNNING == {"PENDING", "IN_PROGRESS"}

job_bar ==
    [READY |-> <<0, "link">>, WAITING |-> <<0, "light">>,
     SUBMITTED |-> <<25, "info">>, PENDING |-> <<50, "warning">>,
     IN_PROGRESS |-> <<75, "primary">>, COMPLETED |-> <<100, "success">>,
     CANCELLED |-> <<100, "dark">>, FAILED |-> <<100, "danger">>]

VARIABLES
    btn_solve_cqm_disabled, \* btn_solve_cqm.disabled
    btn_cancel_style,       \* btn_cancel.style: "none" (display none) or "shown"
    wd_job,                 \* dcc.Interval: [disabled, interval, n_intervals]
    bar_job_status,         \* <<value, color>>
    job_submit_state,       \* text of the job_submit_state paragraph
    job_sm,                 \* job_sm.children
    job_submit_time,        \* job_submit_time.children
    job_id,                 \* job_id.children
    solutions_print_code,   \* sampleset shown (0: the layout's intro text)
    solutions_print_human,
    problems,               \* remote service: sequence of submitted problems
    job_submit_call,        \* the job_submit callback in flight
    failures,               \* transient failures of status calls so far
    now,                    \* wall clock, in the resolution of "%c"
    loaded,                 \* the page's initial callback round was answered
    inputs,                 \* values of the user's settings
    edits,                  \* edits made by the user so far
    input_print,            \* [changed |-> name of the setting marked "<<--"]
    problem_print_code,     \* [json |-> BOOLEAN, legs |-> identifier of the legs]
    cqm_print,              \* value of the CQM text area
    legs_trig,              \* legs is triggered (input_print changed)
    cqm_trig,               \* triggers of cqm not yet answered
    last_cb                 \* the callback answered last (history)

jobvars == <<btn_solve_cqm_disabled, btn_cancel_style, wd_job, bar_job_status,
             job_submit_state, job_sm, job_submit_time, job_id,
             solutions_print_code, solutions_print_human, problems,
             job_submit_call, failures, now>>
cqmvars == <<inputs, edits, input_print, problem_print_code, cqm_print,
             legs_trig, cqm_trig>>
vars == <<jobvars, cqmvars, loaded, last_cb>>

\* ---- helpers of the repository's modules formatting and tour_planning

\* formatting.out_job_submit_state: the status line shown to the user
out_job_submit_state(status) == <<"Status: ", status>>

\* formatting.in_problem_code: json.loads of the text area; ValueError on
\* text that is not JSON (the layout's intro text)
in_problem_code(code) ==
    IF code.json THEN [raised |-> FALSE, legs |-> code.legs]
    ELSE [raised |-> TRUE, legs |-> 0]

\* tour_planning.build_cqm: the model built from the legs and the settings,
\* kept as the arguments it was built from
build_cqm(legs, p_max_leg_slope, p_max_cost, p_max_time, p_weight_cost, p_weight_time, p_weight_slope) ==
    [legs |-> legs, max_leg_slope |-> p_max_leg_slope,
     max_cost |-> p_max_cost, max_time |-> p_max_time,
     weight_cost |-> p_weight_cost, weight_time |-> p_weight_time,
     weight_slope |-> p_weight_slope]

\* ---- the remote service (dwave.cloud)

\* label given to a problem by job_submit, and the time cut out of it by
\* label.split("submitted: ")[1]
Label(t) == <<"Examples - Tour Planning, ", "submitted: ", t>>
LabelTime(label) == label[3]

\* an exception of the remote call: ResourceNotFoundError for an id the
\* service does not know, any other exception for a transient failure
NotFound == [ok |-> FALSE, err |-> "ResourceNotFoundError", label |-> <<>>,
             status |-> "none"]
Transient == [ok |-> FALSE, err |-> "RequestTimeout", label |-> <<>>,
              status |-> "none"]

\* what Problems.get_problem_status(id) can answer: the problem's status, or
\* an exception (always for an unknown id, transiently for a known one)
PollOutcomes(id) ==
    IF id \notin DOMAIN problems THEN {NotFound}
    ELSE {[ok |-> TRUE, err |-> "none", label |-> problems[id].label,
           status |-> problems[id].status]}
         \cup (IF failures < MaxFailures THEN {Transient} ELSE {})

\* client.retrieve_answer(id).sampleset
Sampleset(id) == id

\* ---- callbacks

NoUpdate == <<>>
Raised == [raised |-> TRUE, out |-> NoUpdate]
Return(out) == [raised |-> FALSE, out |-> out]
Upd(r, k, old) == IF k \in DOMAIN r.out THEN r.out[k] ELSE old

\* cqm_submit, trigger btn_solve_cqm: a new submission starts
cqm_submit_click(t) ==
    Return([btn_solve_cqm_disabled |-> TRUE, btn_cancel_style |-> "shown",
            wd_job |-> [disabled |-> FALSE, interval |-> IntervalClick,
                        n_intervals |-> 0],
            bar_job_status |-> job_bar["SUBMITTED"],
            job_submit_state |-> out_job_submit_state("SUBMITTED"),
            job_sm |-> "SUBMITTED", job_submit_time |-> t])

\* SubmittedStatus without the comparison of the label's time
SubmittedStatus_any_label(p_job_submit_time, poll) ==
    IF poll.ok THEN poll.status ELSE "SUBMITTED"

\* the status adopted in state SUBMITTED: the remote one when the call
\* answered a problem labelled with this submission's time, SUBMITTED for any
\* other label and for any exception
SubmittedStatus(p_job_submit_time, poll) ==
    IF poll.ok /\ Len(poll.label) >= 3
       /\ LabelTime(poll.label) = p_job_submit_time
    THEN poll.status
    ELSE "SUBMITTED"

\* helpers_jobs.get_status: the remote status when the label carries this
\* submission's time, None for another label and for ResourceNotFoundError;
\* any other exception leaves the function
get_status(p_job_submit_time, poll) ==
    IF poll.ok
    THEN IF Len(poll.label) < 3 THEN [raised |-> TRUE, value |-> "None"]
         ELSE IF LabelTime(poll.label) = p_job_submit_time
         THEN [raised |-> FALSE, value |-> poll.status]
         ELSE [raised |-> FALSE, value |-> "None"]
    ELSE IF poll.err = "ResourceNotFoundError"
    THEN [raised |-> FALSE, value |-> "None"]
    ELSE [raised |-> TRUE, value |-> "None"]

\* cqm_submit_submitted that enables the button again
cqm_submit_submitted_enabled(p_job_submit_time, poll) ==
    LET status == SubmittedStatus(p_job_submit_time, poll) IN
    Return([btn_solve_cqm_disabled |-> FALSE,
            wd_job |-> [disabled |-> FALSE, interval |-> IntervalPoll,
                        n_intervals |-> 0],
            bar_job_status |-> job_bar["SUBMITTED"],
            job_submit_state |-> out_job_submit_state(status),
            job_sm |-> status])

\* cqm_submit, trigger wd_job, job_sm = SUBMITTED
cqm_submit_submitted(p_job_submit_time, poll) ==
    LET status == SubmittedStatus(p_job_submit_time, poll) IN
    Return([btn_solve_cqm_disabled |-> TRUE,
            wd_job |-> [disabled |-> FALSE, interval |-> IntervalPoll,
                        n_intervals |-> 0],
            bar_job_status |-> job_bar["SUBMITTED"],
            job_submit_state |-> out_job_submit_state(status),
            job_sm |-> status])

\* cqm_submit_running with the status call guarded as in state SUBMITTED:
\* an exception falls back to the default status SUBMITTED
cqm_submit_running_default(p_job_id, poll) ==
    LET status == IF poll.ok THEN poll.status ELSE "SUBMITTED"
        base == [btn_solve_cqm_disabled |-> TRUE,
                 wd_job |-> [disabled |-> FALSE, interval |-> IntervalPoll,
                             n_intervals |-> 0],
                 bar_job_status |-> job_bar[status],
                 job_submit_state |-> out_job_submit_state(status),
                 job_sm |-> status]
    IN  IF status = "IN_PROGRESS"
        THEN Return(base @@ [btn_cancel_style |-> "none"])
        ELSE IF status = "COMPLETED"
        THEN Return(base @@ [solutions_print_code |-> Sampleset(p_job_id),
                             solutions_print_human |-> Sampleset(p_job_id)])
        ELSE Return(base)

\* cqm_submit, trigger wd_job, job_sm in PENDING, IN_PROGRESS: the status
\* call is not guarded, so its exception is the callback's
cqm_submit_running(p_job_id, poll) ==
    IF ~poll.ok \/ poll.status \notin DOMAIN job_bar THEN Raised
    ELSE
    LET status == poll.status
        base == [btn_solve_cqm_disabled |-> TRUE,
                 wd_job |-> [disabled |-> FALSE, interval |-> IntervalPoll,
                             n_intervals |-> 0],
                 bar_job_status |-> job_bar[status],
                 job_submit_state |-> out_job_submit_state(status),
                 job_sm |-> status]
    IN  IF status = "IN_PROGRESS"
        THEN Return(base @@ [btn_cancel_style |-> "none"])
        ELSE IF status = "COMPLETED"
        THEN Return(base @@ [solutions_print_code |-> Sampleset(p_job_id),
                             solutions_print_human |-> Sampleset(p_job_id)])
        ELSE Return(base)

\* cqm_submit, trigger wd_job, job_sm terminal: buttons enabled, timer off
cqm_submit_terminated ==
    Return([btn_solve_cqm_disabled |-> FALSE,
            wd_job |-> [disabled |-> TRUE, interval |-> IntervalDone,
                        n_intervals |-> 0]])

\* cqm_submit: dispatch on the trigger, then on job_sm
cqm_submit(trigger_id, p_job_id, p_job_sm, p_job_submit_time, poll, t) ==
    IF trigger_id \notin {"btn_solve_cqm", "wd_job"} THEN Return(NoUpdate)
    ELSE IF trigger_id = "btn_solve_cqm" THEN cqm_submit_click(t)
    ELSE IF p_job_sm = "SUBMITTED"
    THEN cqm_submit_submitted(p_job_submit_time, poll)
    ELSE IF p_job_sm \in RUNNING THEN cqm_submit_running(p_job_id, poll)
    ELSE IF p_job_sm \in TERMINATED THEN cqm_submit_terminated
    ELSE Raised   \* falls off the end: None is no valid return value

\* whether cqm_submit calls get_problem_status in this state
Polls(p_job_sm) == p_job_sm \in {"SUBMITTED"} \cup RUNNING

\* the page applies the outputs of cqm_submit
ApplyCqmSubmit(r) ==
    /\ btn_solve_cqm_disabled' =
           Upd(r, "btn_solve_cqm_disabled", btn_solve_cqm_disabled)
    /\ btn_cancel_style' = Upd(r, "btn_cancel_style", btn_cancel_style)
    /\ bar_job_status' = Upd(r, "bar_job_status", bar_job_status)
    /\ job_submit_state' = Upd(r, "job_submit_state", job_submit_state)
    /\ job_sm' = Upd(r, "job_sm", job_sm)
    /\ job_submit_time' = Upd(r, "job_submit_time", job_submit_time)
    /\ solutions_print_code' =
           Upd(r, "solutions_print_code", solutions_print_code)
    /\ solutions_print_human' =
           Upd(r, "solutions_print_human", solutions_print_human)

\* job_submit that labels the problem without the submission's time
job_submit_unlabelled(trigger_id, p_job_submit_time, p_problem_print_code, p_max_leg_slope, p_max_cost, p_max_time, p_weight_cost, p_weight_time, p_weight_slope) ==
    LET parsed == in_problem_code(p_problem_print_code)
        nothing == build_cqm(0, 0, 0, 0, 0, 0, 0)
    IN  IF trigger_id = "job_submit_time"
        THEN IF parsed.raised
             THEN [raised |-> TRUE, submit |-> FALSE, label |-> <<>>,
                   cqm |-> nothing]
             ELSE [raised |-> FALSE, submit |-> TRUE,
                   label |-> <<"Examples - Tour Planning, ", "submitted: ",
                               NoTime>>,
                   cqm |-> build_cqm(parsed.legs, p_max_leg_slope, p_max_cost,
                                     p_max_time, p_weight_cost, p_weight_time,
                                     p_weight_slope)]
        ELSE [raised |-> FALSE, submit |-> FALSE, label |-> <<>>,
              cqm |-> nothing]

\* job_submit: submits the CQM when triggered by job_submit_time, no_update
\* for any other trigger.  submit: upload_cqm and sample_cqm are called
job_submit(trigger_id, p_job_submit_time, p_problem_print_code, p_max_leg_slope, p_max_cost, p_max_time, p_weight_cost, p_weight_time, p_weight_slope) ==
    LET parsed == in_problem_code(p_problem_print_code)
        nothing == build_cqm(0, 0, 0, 0, 0, 0, 0)
    IN  IF trigger_id = "job_submit_time"
        THEN IF parsed.raised
             THEN [raised |-> TRUE, submit |-> FALSE, label |-> <<>>,
                   cqm |-> nothing]
             ELSE [raised |-> FALSE, submit |-> TRUE,
                   label |-> Label(p_job_submit_time),
                   cqm |-> build_cqm(parsed.legs, p_max_leg_slope, p_max_cost,
                                     p_max_time, p_weight_cost, p_weight_time,
                                     p_weight_slope)]
        ELSE [raised |-> FALSE, submit |-> FALSE, label |-> <<>>,
              cqm |-> nothing]

\* the State values of cqm and of job_submit, in the order the decorator
\* declares them: max_leg_slope, the keys of constraint_inputs, the keys of
\* cqm_inputs
constraint_inputs == <<"weight_cost", "weight_time", "weight_slope">>
cqm_inputs == <<"max_cost", "max_time">>
leg_inputs == {"num_legs", "max_leg_length", "min_leg_length", "max_leg_slope"}
StateNames == <<"max_leg_slope">> \o constraint_inputs \o cqm_inputs
StateValues(inp) == [i \in DOMAIN StateNames |-> inp[StateNames[i]]]

\* cqm.__str__() and the other values of the CQM text area
CqmStr(c) == [text |-> "cqm", model |-> c]
CqmLayout == [text |-> "", model |-> build_cqm(0, 0, 0, 0, 0, 0, 0)]
CqmNone == [text |-> "None", model |-> build_cqm(0, 0, 0, 0, 0, 0, 0)]

\* cqm that answers only the trigger input_print
cqm_input_print_only(trigger_id, p_problem_print_code, p_max_leg_slope, p_max_cost, p_max_time, p_weight_cost, p_weight_time, p_weight_slope) ==
    LET parsed == in_problem_code(p_problem_print_code) IN
    IF trigger_id \in {"input_print"}
    THEN IF parsed.raised THEN Return(NoUpdate)
         ELSE Return([cqm_print |->
                 CqmStr(build_cqm(parsed.legs, p_max_leg_slope, p_max_cost,
                                  p_max_time, p_weight_cost, p_weight_time,
                                  p_weight_slope))])
    ELSE Return([cqm_print |-> CqmNone])

\* cqm: the CQM of the legs and the settings, when triggered by input_print
\* or problem_print_code; no_update when the problem code does not parse
cqm(trigger_id, p_problem_print_code, p_max_leg_slope, p_max_cost, p_max_time, p_weight_cost, p_weight_time, p_weight_slope) ==
    LET parsed == in_problem_code(p_problem_print_code) IN
    IF trigger_id \in {"input_print", "problem_print_code"}
    THEN IF parsed.raised THEN Return(NoUpdate)
         ELSE Return([cqm_print |->
                 CqmStr(build_cqm(parsed.legs, p_max_leg_slope, p_max_cost,
                                  p_max_time, p_weight_cost, p_weight_time,
                                  p_weight_slope))])
    ELSE Return([cqm_print |-> CqmNone])

\* legs: the initial legs when no setting is marked changed, new legs when a
\* leg setting is, no_update otherwise.  new_legs: what set_legs draws
InitLegs == 1
NewLegs == {2, 3}
ProblemCode(l) == [json |-> TRUE, legs |-> l]
legs(trigger_id, p_input_print, new_legs) ==
    IF trigger_id = "input_print"
    THEN IF p_input_print.changed = "None"
         THEN Return([problem_print_code |-> ProblemCode(InitLegs)])
         ELSE IF p_input_print.changed \in leg_inputs
         THEN Return([problem_print_code |-> ProblemCode(new_legs)])
         ELSE Return(NoUpdate)
    ELSE Raised

\* user_inputs: the text of the settings, the triggering one marked
SettingNames == {StateNames[i] : i \in DOMAIN StateNames}
user_inputs(trigger_id, values) ==
    Return([input_print |->
        [changed |-> IF trigger_id \in SettingNames THEN trigger_id ELSE "None",
         values |-> values]])

\* ---- the page after construction (the layout)

IdleCall == [pc |-> "idle", job_submit_time |-> NoTime,
             problem_print_code |-> [json |-> FALSE, legs |-> 0],
             state_values |-> <<0, 0, 0, 0, 0, 0>>, id |-> NoJobId]

InitInputs == [max_leg_slope |-> 8, max_cost |-> 200, max_time |-> 20,
               weight_cost |-> 33, weight_time |-> 44, weight_slope |-> 55]

Cb(name, trigger, polled, raised) ==
    [name |-> name, trigger |-> trigger, polled |-> polled, raised |-> raised]

Init ==
    /\ btn_solve_cqm_disabled = FALSE
    /\ btn_cancel_style = "none"
    /\ wd_job = [disabled |-> TRUE, interval |-> 0, n_intervals |-> 0]
    /\ bar_job_status = <<0, "info">>
    /\ job_submit_state = out_job_submit_state("READY")
    /\ job_sm = "ready"
    /\ job_submit_time = NoTime
    /\ job_id = NoJobId
    /\ solutions_print_code = 0
    /\ solutions_print_human = 0
    /\ problems = <<>>
    /\ job_submit_call = IdleCall
    /\ failures = 0
    /\ now = 0
    /\ loaded = FALSE
    /\ inputs = InitInputs
    /\ edits = 0
    /\ input_print = [changed |-> "None", values |-> InitInputs]
    /\ problem_print_code = [json |-> FALSE, legs |-> 0]
    /\ cqm_print = CqmLayout
    /\ legs_trig = FALSE
    /\ cqm_trig = {}
    /\ last_cb = Cb("none", "", "none", FALSE)

\* ---- actions

\* The browser's first round: every callback is called with no trigger.
\* cqm_submit and job_submit answer no_update; user_inputs prints the
\* settings, which triggers legs and cqm.
PageLoad ==
    /\ ~loaded
    /\ loaded' = TRUE
    /\ LET r == cqm_submit("", job_id, job_sm, job_submit_time, NotFound, now)
           j == job_submit("", job_submit_time, problem_print_code,
                           StateValues(inputs)[1], StateValues(inputs)[2],
                           StateValues(inputs)[3], StateValues(inputs)[4],
                           StateValues(inputs)[5], StateValues(inputs)[6])
           u == user_inputs("", inputs)
       IN  /\ ApplyCqmSubmit(r)
           /\ wd_job' = Upd(r, "wd_job", wd_job)
           /\ problems' = IF j.submit
                          THEN Append(problems, [label |-> j.label,
                                   status |-> "PENDING", cqm |-> j.cqm])
                          ELSE problems
           /\ job_id' = IF j.submit THEN Len(problems) + 1 ELSE job_id
           /\ input_print' = Upd(u, "input_print", input_print)
    /\ legs_trig' = TRUE
    /\ cqm_trig' = {"input_print"}
    /\ last_cb' = Cb("page_load", "", "none", FALSE)
    /\ UNCHANGED <<job_submit_call, failures, now, inputs, edits,
                   problem_print_code, cqm_print>>

\* The user changes one setting; user_inputs answers.
UserEdit ==
    /\ loaded
    /\ edits < MaxEdits
    /\ \E k \in SettingNames :
         LET values == [inputs EXCEPT ![k] = @ + 1]
             u == user_inputs(k, values)
         IN  /\ inputs' = values
             /\ input_print' = Upd(u, "input_print", input_print)
             /\ last_cb' = Cb("user_inputs", k, "none", FALSE)
    /\ edits' = edits + 1
    /\ legs_trig' = TRUE
    /\ cqm_trig' = cqm_trig \cup {"input_print"}
    /\ UNCHANGED <<jobvars, loaded, problem_print_code, cqm_print>>

\* legs answers a change of input_print.
Legs ==
    /\ legs_trig
    /\ legs_trig' = FALSE
    /\ \E l \in NewLegs :
         LET r == legs("input_print", input_print, l) IN
         /\ ~r.raised
         /\ problem_print_code' = Upd(r, "problem_print_code", problem_print_code)
         /\ cqm_trig' = IF "problem_print_code" \in DOMAIN r.out
                        THEN cqm_trig \cup {"problem_print_code"}
                        ELSE cqm_trig
    /\ last_cb' = Cb("legs", "input_print", "none", FALSE)
    /\ UNCHANGED <<jobvars, loaded, inputs, edits, input_print, cqm_print>>

\* cqm answers one of its triggers, with the State values bound by position.
Cqm ==
    /\ \E t \in cqm_trig :
         LET sv == StateValues(inputs)
             r == cqm(t, problem_print_code, sv[1], sv[2], sv[3], sv[4],
                      sv[5], sv[6])
         IN  /\ cqm_trig' = cqm_trig \ {t}
             /\ cqm_print' = Upd(r, "cqm_print", cqm_print)
             /\ last_cb' = Cb("cqm", t, "none", r.raised)
    /\ UNCHANGED <<jobvars, loaded, inputs, edits, input_print,
                   problem_print_code, legs_trig>>

\* A click on 'Solve CQM' (possible while the button is enabled, once the
\* page shows a problem): cqm_submit answers, and the new job_submit_time
\* triggers job_submit with the values the page holds then.
Click ==
    /\ loaded
    /\ problem_print_code.json
    /\ ~btn_solve_cqm_disabled
    /\ job_submit_call.pc = "idle"
    /\ now < MaxClicks
    /\ now' = now + 1
    /\ LET r == cqm_submit("btn_solve_cqm", job_id, job_sm, job_submit_time,
                           NotFound, now')
       IN  /\ ~r.raised
           /\ ApplyCqmSubmit(r)
           /\ wd_job' = Upd(r, "wd_job", wd_job)
           /\ job_submit_call' =
                IF "job_submit_time" \in DOMAIN r.out
                THEN [pc |-> "triggered",
                      job_submit_time |-> r.out["job_submit_time"],
                      problem_print_code |-> problem_print_code,
                      state_values |-> StateValues(inputs), id |-> NoJobId]
                ELSE job_submit_call
    /\ last_cb' = Cb("cqm_submit", "btn_solve_cqm", "none", FALSE)
    /\ UNCHANGED <<job_id, problems, failures, loaded, cqmvars>>

\* job_submit up to sample_cqm: the problem is in the remote service, the
\* callback waits for its id.
JobSubmitCall ==
    /\ job_submit_call.pc = "triggered"
    /\ LET c == job_submit_call
           sv == c.state_values
           j == job_submit("job_submit_time", c.job_submit_time,
                           c.problem_print_code, sv[1], sv[2], sv[3], sv[4],
                           sv[5], sv[6])
       IN  IF j.submit
           THEN /\ problems' = Append(problems, [label |-> j.label,
                                   status |-> "PENDING", cqm |-> j.cqm])
                /\ job_submit_call' = [c EXCEPT !.pc = "waiting",
                                                !.id = Len(problems) + 1]
           ELSE /\ problems' = problems
                /\ job_submit_call' = IdleCall
    /\ last_cb' = Cb("job_submit_call", "job_submit_time", "none", FALSE)
    /\ UNCHANGED <<btn_solve_cqm_disabled, btn_cancel_style, wd_job,
                   bar_job_status, job_submit_state, job_sm, job_submit_time,
                   job_id, solutions_print_code, solutions_print_human,
                   failures, now, loaded, cqmvars>>

\* job_submit returns computation.wait_id(): the page's job_id is set.
JobSubmitReturn ==
    /\ job_submit_call.pc = "waiting"
    /\ job_id' = job_submit_call.id
    /\ job_submit_call' = IdleCall
    /\ last_cb' = Cb("job_submit", "job_submit_time", "none", FALSE)
    /\ UNCHANGED <<btn_solve_cqm_disabled, btn_cancel_style, wd_job,
                   bar_job_status, job_submit_state, job_sm, job_submit_time,
                   solutions_print_code, solutions_print_human, problems,
                   failures, now, loaded, cqmvars>>

\* The one-shot timer wd_job fires (enabled, n_intervals below
\* max_intervals): n_intervals counts up and cqm_submit answers.  When the
\* callback raises no output is applied, n_intervals stays at max_intervals.
WdJobFire ==
    /\ ~wd_job.disabled
    /\ wd_job.n_intervals < max_intervals
    /\ \E poll \in (IF Polls(job_sm) THEN PollOutcomes(job_id)
                    ELSE {NotFound}) :
         LET r == cqm_submit("wd_job", job_id, job_sm, job_submit_time, poll,
                             now)
             fired == [wd_job EXCEPT !.n_intervals = @ + 1]
         IN  /\ ApplyCqmSubmit(r)
             /\ wd_job' = Upd(r, "wd_job", fired)
             /\ failures' = IF Polls(job_sm) /\ ~poll.ok
                               /\ job_id \in DOMAIN problems
                            THEN failures + 1 ELSE failures
             /\ last_cb' = Cb("cqm_submit", "wd_job",
                              IF ~Polls(job_sm) THEN "none"
                              ELSE IF poll.ok THEN "ok" ELSE "error",
                              r.raised)
    /\ UNCHANGED <<job_id, problems, job_submit_call, now, loaded, cqmvars>>

\* The remote service works on a problem: PENDING, IN_PROGRESS, then one of
\* COMPLETED, CANCELLED, FAILED.
NextStatus(status) ==
    IF status = "PENDING" THEN {"IN_PROGRESS"}
    ELSE IF status = "IN_PROGRESS" THEN TERMINATED
    ELSE {}

RemoteProgress ==
    /\ \E id \in DOMAIN problems :
         \E st \in NextStatus(problems[id].status) :
            problems' = [problems EXCEPT ![id].status = st]
    /\ last_cb' = Cb("remote", "", "none", FALSE)
    /\ UNCHANGED <<btn_solve_cqm_disabled, btn_cancel_style, wd_job,
                   bar_job_status, job_submit_state, job_sm, job_submit_time,
                   job_id, solutions_print_code, solutions_print_human,
                   job_submit_call, failures, now, loaded, cqmvars>>

\* The submission of jobs: the page loads and draws the initial problem,
\* the user clicks 'Solve CQM', the timer polls, the service works.  The
\* user's edits of the settings are left to SpecCqm: they write inputs,
\* input_print, problem_print_code and cqm_print only, of which the job
\* callbacks read nothing but the values passed on to build_cqm.
Next ==
    \/ PageLoad
    \/ Legs
    \/ Cqm
    \/ Click
    \/ JobSubmitCall
    \/ JobSubmitReturn
    \/ WdJobFire
    \/ RemoteProgress

Spec == Init /\ [][Next]_vars

\* The generation of the CQM: the page loads, the user edits settings, and
\* user_inputs, legs and cqm answer.
NextCqm ==
    \/ PageLoad
    \/ UserEdit
    \/ Legs
    \/ Cqm

\* The scheduling the claims about progress assume: the timer fires when it
\* is armed, a dispatched job_submit runs to its end, the service works on
\* what it holds.  Transient failures of status calls end (MaxFailures).
LiveSpec ==
    /\ Spec
    /\ WF_vars(WdJobFire)
    /\ WF_vars(JobSubmitCall)
    /\ WF_vars(JobSubmitReturn)
    /\ WF_vars(RemoteProgress)

SpecCqm == Init /\ [][NextCqm]_vars

\* ---- properties

InFlight == {"SUBMITTED"} \cup RUNNING

\* the step is cqm_submit answering the timer
TimerStep == last_cb'.name = "cqm_submit" /\ last_cb'.trigger = "wd_job"

\* the problem of the current submission: the one labelled job_submit_time
Current(id) ==
    /\ id \in DOMAIN problems
    /\ LabelTime(problems[id].label) = job_submit_time

Stage(sm) ==
    IF sm = "SUBMITTED" THEN 1
    ELSE IF sm \in RUNNING THEN 2
    ELSE IF sm \in TERMINATED THEN 3
    ELSE 0

\* C1: a timer-triggered step never moves job_sm to an earlier stage
\* (SUBMITTED, then PENDING/IN_PROGRESS, then COMPLETED/CANCELLED/FAILED),
\* and never changes a job_sm that is COMPLETED, CANCELLED or FAILED.
C1_ForwardOnly ==
    [][TimerStep =>
         /\ Stage(job_sm') >= Stage(job_sm)
         /\ (job_sm = "IN_PROGRESS" => job_sm' # "PENDING")
         /\ (job_sm \in TERMINATED => job_sm' = job_sm)]_vars

\* a submission went through the stages and its terminal state was handled
C1_Witness ==
    /\ job_sm = "COMPLETED"
    /\ solutions_print_code = job_id
    /\ Current(job_id)
    /\ wd_job.disabled
    /\ last_cb.name = "cqm_submit" /\ last_cb.trigger = "wd_job"

\* C2: a status call that raises, in state SUBMITTED, PENDING or
\* IN_PROGRESS, is caught: the polling step does not fail and the job status
\* is the default SUBMITTED; get_status answers None instead of raising.
C2_PollErrorsCaught ==
    [][(TimerStep /\ job_sm \in InFlight /\ last_cb'.polled = "error") =>
         /\ ~last_cb'.raised
         /\ job_sm' = "SUBMITTED"
         /\ \A poll \in PollOutcomes(job_id) :
              ~poll.ok => ~get_status(job_submit_time, poll).raised]_vars

\* C3: whenever job_sm is COMPLETED, the sampleset of the current job is
\* what solutions_print_code and solutions_print_human show.
C3_CompletedPublished ==
    job_sm = "COMPLETED" =>
        /\ Current(job_id)
        /\ solutions_print_code = Sampleset(job_id)
        /\ solutions_print_human = Sampleset(job_id)

\* C4: after a click the system reaches job_sm terminal (the remote job's
\* status), wd_job disabled and the button enabled; until then every
\* timer-triggered step leaves the timer armed (enabled, n_intervals 0).
C4_PollingCompletes ==
    /\ (job_sm = "SUBMITTED") ~>
          (/\ job_sm \in TERMINATED
           /\ Current(job_id) /\ job_sm = problems[job_id].status
           /\ wd_job.disabled
           /\ ~btn_solve_cqm_disabled)
    /\ [][(TimerStep /\ job_sm \notin TERMINATED) =>
            (~wd_job'.disabled /\ wd_job'.n_intervals = 0)]_vars

\* C5: triggered by input_print or by problem_print_code, cqm writes the
\* printed CQM of the legs in problem_print_code when that parses, and
\* leaves cqm_print unchanged when it does not.
C5_CqmGenerated ==
    [][(last_cb'.name = "cqm"
        /\ last_cb'.trigger \in {"input_print", "problem_print_code"}) =>
         IF in_problem_code(problem_print_code).raised
         THEN cqm_print' = cqm_print /\ ~last_cb'.raised
         ELSE /\ cqm_print'.text = "cqm"
              /\ cqm_print'.model.legs = problem_print_code.legs
              /\ ~last_cb'.raised]_vars

\* after an edit, the change of problem_print_code produced the CQM of the
\* new legs
C5_Witness ==
    /\ last_cb.name = "cqm" /\ last_cb.trigger = "problem_print_code"
    /\ edits > 0
    /\ cqm_print.text = "cqm"
    /\ cqm_print.model.legs = problem_print_code.legs
    /\ problem_print_code.legs # InitLegs

StatusRank(st) ==
    IF st = "PENDING" THEN 1
    ELSE IF st = "IN_PROGRESS" THEN 2
    ELSE IF st \in TERMINATED THEN 3
    ELSE 0

\* C6: a remote status in job_sm is a status of the problem labelled with
\* the current job_submit_time; in state SUBMITTED a poll with a job_id
\* that is empty or of an earlier submission leaves job_sm at SUBMITTED,
\* and get_status answers a status only for the current problem.
C6_OnlyCurrentJob ==
    [][/\ (job_sm' \in RUNNING \cup TERMINATED =>
              (\E id \in DOMAIN problems' :
                  /\ LabelTime(problems'[id].label) = job_submit_time'
                  /\ StatusRank(job_sm') <= StatusRank(problems'[id].status)
                  /\ (job_sm' \in TERMINATED =>
                         job_sm' = problems'[id].status)))
       /\ ((TimerStep /\ job_sm = "SUBMITTED" /\ ~Current(job_id)) =>
              job_sm' = "SUBMITTED")
       /\ (\A poll \in PollOutcomes(job_id) :
              LET g == get_status(job_submit_time, poll) IN
              (~g.raised /\ g.value # "None") => Current(job_id))]_vars

\* the second submission was polled with the first one's job_id, a problem
\* that is COMPLETED, and job_sm stays SUBMITTED
C6_Witness ==
    /\ job_sm = "SUBMITTED"
    /\ job_submit_time = 2
    /\ job_id = 1
    /\ problems[job_id].status = "COMPLETED"
    /\ job_submit_call.pc = "waiting"
    /\ last_cb.name = "cqm_submit" /\ last_cb.trigger = "wd_job"
    /\ last_cb.polled = "ok"

\* a model was built with every setting under its own name
SettingsMatch(c, inp) ==
    /\ c.max_leg_slope = inp.max_leg_slope
    /\ c.max_cost = inp.max_cost
    /\ c.max_time = inp.max_time
    /\ c.weight_cost = inp.weight_cost
    /\ c.weight_time = inp.weight_time
    /\ c.weight_slope = inp.weight_slope

\* C7: in cqm and in job_submit, build_cqm receives each setting under its
\* own name: max_cost is the max_cost input, max_time the max_time input,
\* and each weight the weight input of the same name.
C7_SettingsByName ==
    [][/\ ((last_cb'.name = "cqm" /\ cqm_print'.text = "cqm") =>
              SettingsMatch(cqm_print'.model, inputs))
       /\ (Len(problems') > Len(problems) =>
              SettingsMatch(problems'[Len(problems')].cqm, inputs))]_vars

\* C8: while job_sm is SUBMITTED, PENDING or IN_PROGRESS the button is
\* disabled, job_submit_time does not change and no click is answered; the
\* button becomes enabled only in the timer step that handles a terminal
\* job_sm.
C8_ButtonDisabledInFlight ==
    [][/\ (job_sm' \in InFlight => btn_solve_cqm_disabled')
       /\ (job_sm \in InFlight =>
              /\ job_submit_time' = job_submit_time
              /\ ~(last_cb'.name = "cqm_submit"
                   /\ last_cb'.trigger = "btn_solve_cqm"))
       /\ ((btn_solve_cqm_disabled /\ ~btn_solve_cqm_disabled') =>
              (TimerStep /\ job_sm \in TERMINATED))]_vars

\* the button was enabled again by the step handling a terminal job_sm
C8_Witness ==
    /\ ~btn_solve_cqm_disabled
    /\ job_sm \in TERMINATED
    /\ wd_job.disabled
    /\ last_cb.name = "cqm_submit" /\ last_cb.trigger = "wd_job"

\* the problems labelled with the time t
Labelled(t) == {id \in DOMAIN problems : LabelTime(problems[id].label) = t}

====
